---- MODULE Spec2Model ----
(***************************************************************************)
(* Model of src/algorithmic/constraint/algo_constraint.py: the             *)
(* counterexample-guided search for a finite-state controller.            *)
(*                                                                         *)
(* AlgorithmicSolver.solve asks the boolean solver for a candidate        *)
(* (BoolSatHelper.resolve), runs it against the environment               *)
(* (try_model / run_episode), and on failure forbids the literals the     *)
(* failed episode exercised (the nogood built from dirty_variables).      *)
(*                                                                         *)
(* The environment (gym) and the solver backend (pysmt) are external:     *)
(* every env.reset()/env.step() answer and every satisfying assignment    *)
(* solver.solve() may return is a nondeterministic choice.                *)
(***************************************************************************)
EXTENDS Integers, Sequences, FiniteSets, TLC

\* ---------------------------------------------------------------- bounds

\* Largest n_states / write_chars.n explored.
MaxStates == 2
MaxChars == 2
\* Only configurations with at most this many solver variables are explored
\* (every assignment over them is enumerated by solve()).
MaxVars == 12
\* Budgets above ShortIters are explored only for configurations of at most
\* MaxLoopVars variables against one-step episodes; budgets above 1 only
\* for one of the two.
MaxLoopVars == 4
ShortIters == 2
\* Iteration budgets 1..MaxIters are explored (the maxiters argument of solve).
MaxIters == 3
\* solve() answers with a satisfying assignment that has at most ExtraTrue
\* more true variables than the satisfying assignment with the fewest.
ExtraTrue == 1
\* Stands for max_eps = 100000 (try_model's failsafe), scaled down.
max_eps == 2
\* The environment's time limit, in steps, is drawn from 1..MaxSteps.
MaxSteps == 2
\* env.spec.reward_threshold of the task.
reward_threshold == 2
\* env.spec.trials of the task.
trials == 2

\* Step rewards the environment may give.
Rewards == {-1, 0, 1, 2}

\* dirs.n of the action space (two directions for every algorithmic task).
n_dirs == 2

None == [kind |-> "none"]

\* ------------------------------------------------------ variable encoding

\* A solver variable: Symbol('<rule>_<state>_<char>') when k = -1,
\* Symbol('<rule>_<state>_<char>__<k>') otherwise.
Sym(rule, s, o, k) == <<rule, s, o, k>>

\* A literal: the variable itself (pos) or sc.Not(variable).
Lit(v, pos) == <<v, pos>>

\* No literal (nothing was decoded).
NoLit == Lit(Sym("none", 0, 0, -1), FALSE)

states(cfg) == 0 .. cfg.n_states - 1
chars_plus(cfg) == 0 .. cfg.n_chars
dirs == 0 .. n_dirs - 1

to_domain(rule, cfg) ==
    CASE rule = "dir_rule" -> dirs
      [] rule = "write_rule" -> chars_plus(cfg)
      [] rule = "state_rule" -> states(cfg)

\* _rule_vars: (state, charno) -> None | a Symbol | a list of Symbols.
rule_vars(rule, cfg) ==
    LET dom == to_domain(rule, cfg)
        n == Cardinality(dom)
    IN [tup \in states(cfg) \X chars_plus(cfg) |->
          IF n = 2 THEN [kind |-> "sym", v |-> Sym(rule, tup[1], tup[2], -1)]
          ELSE IF n > 2
               THEN [kind |-> "list",
                     vs |-> [j \in 1 .. n |-> Sym(rule, tup[1], tup[2], j - 1)]]
               ELSE None]

RuleNames == {"dir_rule", "write_rule", "state_rule"}

\* The symbols a rule table holds.
SymbolsOf(thing) ==
    CASE thing.kind = "sym" -> {thing.v}
      [] thing.kind = "list" -> {thing.vs[j] : j \in DOMAIN thing.vs}
      [] OTHER -> {}

AllVars(cfg) ==
    UNION {SymbolsOf(rule_vars(r, cfg)[tup]) :
             r \in RuleNames, tup \in states(cfg) \X chars_plus(cfg)}

\* ------------------------------------------------------- constraint model

ExactlyOne(vs) == [op |-> "ExactlyOne", vs |-> vs, lits |-> {}]
NotAnd(lits) == [op |-> "NotAnd", vs |-> {}, lits |-> lits]

\* add_base_constraints that adds nothing.
add_no_constraints(cfg) == {}

\* add_base_constraints: ExactlyOne per (state, char) for domains of size > 2.
add_base_constraints(cfg) ==
    UNION {IF Cardinality(to_domain(r, cfg)) > 2
           THEN {ExactlyOne(SymbolsOf(rule_vars(r, cfg)[tup])) :
                   tup \in states(cfg) \X chars_plus(cfg)}
           ELSE {} : r \in RuleNames}

LitHolds(a, l) == a[l[1]] = l[2]

Eval(f, a) ==
    IF f.op = "ExactlyOne"
    THEN Cardinality({v \in f.vs : a[v]}) = 1
    ELSE ~ (\A l \in f.lits : LitHolds(a, l))

\* The controller shapes explored.
Configs ==
    {c \in [n_states : 1 .. MaxStates, n_chars : 1 .. MaxChars] :
        Cardinality(AllVars(c)) <= MaxVars}

\* The shapes with a degenerate rule domain explored: one state or none
\* (the state rule has at most one value), a write alphabet that may be empty
\* (the write rule then has one value, "don't write").
DegenerateConfigs == [n_states : 0 .. 1, n_chars : 0 .. MaxChars - 1]

\* Every valuation of a shape's variables.
Assignments == [c \in Configs \cup DegenerateConfigs |-> [AllVars(c) -> BOOLEAN]]

\* What solver.solve() may answer: any assignment satisfying every assertion.
Models(asserted, cfg) ==
    {a \in Assignments[cfg] : \A f \in asserted : Eval(f, a)}

Weight(a) == Cardinality({v \in DOMAIN a : a[v]})

\* The answers explored: the satisfying assignments within ExtraTrue true
\* variables of the lightest one (none exactly when unsatisfiable).
Answers(asserted, cfg) ==
    LET M == Models(asserted, cfg)
        W == {Weight(a) : a \in M}
    IN {a \in M : \A w \in W : Weight(a) <= w + ExtraTrue}

\* ------------------------------------------------------ candidate extractor

\* _lookup that records the symbol itself also when it is false.
decode_positive(thing, a) ==
    CASE thing.kind = "list" ->
           LET hits == {j \in DOMAIN thing.vs : a[thing.vs[j]]}
           IN IF hits = {}
              THEN [ok |-> FALSE, ret |-> 0, form |-> NoLit]
              ELSE LET j == CHOOSE x \in hits : \A y \in hits : x <= y
                   IN [ok |-> TRUE, ret |-> j - 1, form |-> Lit(thing.vs[j], TRUE)]
      [] thing.kind = "sym" ->
           LET val == a[thing.v]
           IN [ok |-> TRUE, ret |-> IF val THEN 1 ELSE 0, form |-> Lit(thing.v, TRUE)]
      [] OTHER -> [ok |-> FALSE, ret |-> 0, form |-> NoLit]

\* _lookup without its bookkeeping: the decoded value and the literal that
\* was read.  ok = FALSE is the "Shouldn't have exhausted loop" assertion (or
\* get_py_value on a rule that has no symbol).
decode(thing, a) ==
    CASE thing.kind = "list" ->
           LET hits == {j \in DOMAIN thing.vs : a[thing.vs[j]]}
           IN IF hits = {}
              THEN [ok |-> FALSE, ret |-> 0, form |-> NoLit]
              ELSE LET j == CHOOSE x \in hits : \A y \in hits : x <= y
                   IN [ok |-> TRUE, ret |-> j - 1, form |-> Lit(thing.vs[j], TRUE)]
      [] thing.kind = "sym" ->
           LET val == a[thing.v]
           IN [ok |-> TRUE, ret |-> IF val THEN 1 ELSE 0, form |-> Lit(thing.v, val)]
      [] OTHER -> [ok |-> FALSE, ret |-> 0, form |-> NoLit]

\* _lookup that records only the buffered literals.
lookup_forgets_committed(rules, o, s, buff, a, dv, db) ==
    LET r == decode(rules[<<s, o>>], a)
    IN [ok |-> r.ok, ret |-> r.ret, form |-> r.form,
        dv |-> dv,
        db |-> IF r.ok /\ buff THEN db \cup {r.form} ELSE db]

\* _lookup(rules, obs, state, buff): rules[(state, obs)] decoded; the literal
\* goes to dirty_buffer (buff) or to dirty_variables.
lookup(rules, o, s, buff, a, dv, db) ==
    LET r == decode(rules[<<s, o>>], a)
    IN [ok |-> r.ok, ret |-> r.ret, form |-> r.form,
        dv |-> IF r.ok /\ ~buff THEN dv \cup {r.form} ELSE dv,
        db |-> IF r.ok /\ buff THEN db \cup {r.form} ELSE db]

\* get_action that hands the decoded write value on as the symbol.
get_action_raw_symbol(o, s, a, dv, db, cfg) ==
    LET dv0 == dv \cup db
        d == lookup(rule_vars("dir_rule", cfg), o, s, TRUE, a, dv0, {})
        w == lookup(rule_vars("write_rule", cfg), o, s, FALSE, a, d.dv, d.db)
        do_write == IF w.ret = cfg.n_chars THEN 0 ELSE 1
        to_write == w.ret
    IN [ok |-> d.ok /\ w.ok, ret |-> <<d.ret, do_write, to_write>>,
        dform |-> d.form, wform |-> w.form,
        dv |-> IF d.ok THEN w.dv ELSE d.dv, db |-> IF d.ok THEN w.db ELSE d.db]

\* get_action that flushes the buffer without emptying it.
get_action_keeps_buffer(o, s, a, dv, db, cfg) ==
    LET dv0 == dv \cup db
        d == lookup(rule_vars("dir_rule", cfg), o, s, TRUE, a, dv0, db)
        w == lookup(rule_vars("write_rule", cfg), o, s, FALSE, a, d.dv, d.db)
        do_write == IF w.ret = cfg.n_chars THEN 0 ELSE 1
        to_write == IF w.ret < cfg.n_chars - 1 THEN w.ret ELSE cfg.n_chars - 1
    IN [ok |-> d.ok /\ w.ok, ret |-> <<d.ret, do_write, to_write>>,
        dform |-> d.form, wform |-> w.form,
        dv |-> IF d.ok THEN w.dv ELSE d.dv, db |-> IF d.ok THEN w.db ELSE d.db]

\* get_action with the write looked up like the direction (buffered).
get_action_buffers_write(o, s, a, dv, db, cfg) ==
    LET dv0 == dv \cup db
        d == lookup(rule_vars("dir_rule", cfg), o, s, TRUE, a, dv0, {})
        w == lookup(rule_vars("write_rule", cfg), o, s, TRUE, a, d.dv, d.db)
        do_write == IF w.ret = cfg.n_chars THEN 0 ELSE 1
        to_write == IF w.ret < cfg.n_chars - 1 THEN w.ret ELSE cfg.n_chars - 1
    IN [ok |-> d.ok /\ w.ok, ret |-> <<d.ret, do_write, to_write>>,
        dform |-> d.form, wform |-> w.form,
        dv |-> IF d.ok THEN w.dv ELSE d.dv, db |-> IF d.ok THEN w.db ELSE d.db]

\* get_action(obs, state): flush the buffer, look up the direction
\* (buffered) and the write (committed at once).
get_action(o, s, a, dv, db, cfg) ==
    LET dv0 == dv \cup db
        d == lookup(rule_vars("dir_rule", cfg), o, s, TRUE, a, dv0, {})
        w == lookup(rule_vars("write_rule", cfg), o, s, FALSE, a, d.dv, d.db)
        do_write == IF w.ret = cfg.n_chars THEN 0 ELSE 1
        to_write == IF w.ret < cfg.n_chars - 1 THEN w.ret ELSE cfg.n_chars - 1
    IN [ok |-> d.ok /\ w.ok, ret |-> <<d.ret, do_write, to_write>>,
        dform |-> d.form, wform |-> w.form,
        dv |-> IF d.ok THEN w.dv ELSE d.dv, db |-> IF d.ok THEN w.db ELSE d.db]

\* get_state whose lookup is not buffered.
get_state_commits(o, s, a, dv, db, cfg) ==
    IF cfg.n_states = 1
    THEN [ok |-> TRUE, ret |-> 0, form |-> NoLit, dv |-> dv, db |-> db]
    ELSE lookup(rule_vars("state_rule", cfg), o, s, FALSE, a, dv, db)

\* get_state answering 0 once something is dirty.
get_state_stale(o, s, a, dv, db, cfg) ==
    IF cfg.n_states = 1
    THEN [ok |-> TRUE, ret |-> 0, form |-> NoLit, dv |-> dv, db |-> db]
    ELSE LET r == lookup(rule_vars("state_rule", cfg), o, s, TRUE, a, dv, db)
         IN [r EXCEPT !.ret = IF dv = {} THEN r.ret ELSE 0]

\* get_state(obs, state): constant 0 for one state, else a buffered lookup.
get_state(o, s, a, dv, db, cfg) ==
    IF cfg.n_states = 1
    THEN [ok |-> TRUE, ret |-> 0, form |-> NoLit, dv |-> dv, db |-> db]
    ELSE lookup(rule_vars("state_rule", cfg), o, s, TRUE, a, dv, db)

\* ------------------------------------------------------------------ state

\* float('inf'), the default of maxiters.
inf == -1

VARIABLES
    cfg,              \* [n_states, n_chars]: the controller shape (constructor)
    maxiters,         \* solve's argument (inf: no budget)
    time_limit,       \* the environment ends an episode by this step
    pc,               \* where solve / try_model / run_episode stands
    i,                \* solve's iteration counter
    asserted,         \* the solver session's assertions
    model,            \* the assignment the last solver.solve() produced
    dirty_variables,  \* the Provenance Set
    dirty_buffer,     \* the Pending Buffer
    eps,              \* try_model's i
    goodeps,          \* try_model's goodeps
    success,          \* try_model's success
    reward,           \* try_model's reward (the last episode's total)
    obs,              \* run_episode's obs
    state,            \* run_episode's state
    total_reward,     \* run_episode's total_reward
    steps,            \* steps taken in the running episode
    trace,            \* per step of the running episode: what was decoded
    qualifying,       \* consecutive qualifying episodes of the candidate
    all_failed,       \* no episode of this run has succeeded so far
    outcome,          \* "running", "Succeeded", "Exhausted", "Aborted", "Error";
                      \* "True" / "False" for AlgorithmicPolicy.run
    policy,           \* brute force: the AlgorithmicPolicy being run
    reward_countdown  \* brute force: run's reward_countdown

vars == <<cfg, maxiters, time_limit, pc, i, asserted, model, dirty_variables, dirty_buffer,
          eps, goodeps, success, reward, obs, state, total_reward, steps,
          trace, qualifying, all_failed, outcome, policy, reward_countdown>>

NumVars(c) == Cardinality(AllVars(c))

Budgets(c, t) ==
    IF NumVars(c) <= MaxLoopVars /\ t = 1
    THEN (1 .. MaxIters) \cup {inf}
    ELSE IF NumVars(c) <= MaxLoopVars \/ t = 1
         THEN 1 .. ShortIters
         ELSE {1}

NoModel == <<>>

\* The constraint search runs no brute-force policy.
NoPolicy == <<>>

Init ==
    /\ cfg \in Configs
    /\ time_limit \in 1 .. MaxSteps
    /\ maxiters \in Budgets(cfg, time_limit)
    /\ pc = "loop"
    /\ i = 0
    /\ asserted = add_base_constraints(cfg)
    /\ model = NoModel
    /\ dirty_variables = {}
    /\ dirty_buffer = {}
    /\ eps = 0
    /\ goodeps = 0
    /\ success = FALSE
    /\ reward = 0
    /\ obs = 0
    /\ state = 0
    /\ total_reward = 0
    /\ steps = 0
    /\ trace = <<>>
    /\ qualifying = 0
    /\ all_failed = TRUE
    /\ outcome = "running"
    /\ policy = NoPolicy
    /\ reward_countdown = 0

\* i < maxiters (line 37).
Below(n, m) == m = inf \/ n < m

\* resolve() on a session that is reset before the nogood is added.
assert_nogood_reset(as, dv) ==
    IF dv # {} THEN {f \in as : f.op = "ExactlyOne"} \cup {NotAnd(dv)} ELSE as

\* BoolSatHelper.resolve's effect on the solver session: the nogood, if any
\* literal is dirty.
assert_nogood(as, dv) == IF dv # {} THEN as \cup {NotAnd(dv)} ELSE as

\* resolve() whose UnsatException nobody catches.
after_resolve_uncaught(sat) ==
    IF sat = {}
    THEN [pc |-> "returned", outcome |-> "Error"]
    ELSE [pc |-> "try", outcome |-> "running"]

\* resolve, lines 170-172, and solve, lines 39-45: no assignment raises
\* UnsatException, which solve catches to return False; otherwise try_model
\* is next.
after_resolve(sat) ==
    IF sat = {}
    THEN [pc |-> "returned", outcome |-> "Exhausted"]
    ELSE [pc |-> "try", outcome |-> "running"]

\* solve, lines 37-47: one more iteration; resolve() learns the nogood,
\* clears both sets and solves: unsat ends the search (return False),
\* otherwise try_model starts on the new assignment.  Without a budget the
\* counter is never compared again and is not tracked.
Resolve ==
    /\ pc = "loop"
    /\ i' = IF maxiters = inf THEN i ELSE i + 1
    /\ asserted' = assert_nogood(asserted, dirty_variables)
    /\ dirty_variables' = {}
    /\ dirty_buffer' = {}
    /\ LET sat == Answers(assert_nogood(asserted, dirty_variables), cfg)
       IN /\ pc' = after_resolve(sat).pc
          /\ outcome' = after_resolve(sat).outcome
          /\ IF sat = {} THEN model' = NoModel ELSE model' \in sat
    /\ eps' = 0
    /\ goodeps' = 0
    /\ qualifying' = 0
    /\ trace' = <<>>
    /\ success' = FALSE
    /\ reward' = 0
    /\ UNCHANGED <<policy, reward_countdown>>
    /\ UNCHANGED <<cfg, maxiters, time_limit, obs, state, total_reward, steps,
                   all_failed>>

\* try_model, lines 63-65, and run_episode, lines 92-95: one more episode;
\* env.reset() answers with any input symbol.
StartEpisode ==
    /\ pc = "try"
    /\ eps' = eps + 1
    /\ obs' \in chars_plus(cfg)
    /\ state' = 0
    /\ total_reward' = 0
    /\ steps' = 0
    /\ trace' = <<>>
    /\ pc' = "run"
    /\ UNCHANGED <<policy, reward_countdown>>
    /\ UNCHANGED <<cfg, maxiters, time_limit, i, asserted, model, dirty_variables, dirty_buffer,
                   goodeps, success, reward, qualifying, all_failed, outcome>>

\* try_model that keeps the literals of the episode that reached the cap.
episode_result_cap_keeps(succ, rew, n_eps) ==
    IF ~ succ
    THEN [brk |-> TRUE, clear |-> FALSE]
    ELSE IF rew >= reward_threshold
         THEN [brk |-> TRUE, clear |-> FALSE]
         ELSE [brk |-> ~ (n_eps < max_eps), clear |-> n_eps < max_eps]

\* try_model without its clear_dirty().
episode_result_keeps(succ, rew, n_eps) ==
    IF ~ succ
    THEN [brk |-> TRUE, clear |-> FALSE]
    ELSE IF rew >= reward_threshold
         THEN [brk |-> TRUE, clear |-> FALSE]
         ELSE [brk |-> ~ (n_eps < max_eps), clear |-> FALSE]

\* try_model, lines 66-74 and 63: what the episode that just ended does to
\* the loop.  A failed episode or a qualifying one breaks; any other is
\* forgotten (clear_dirty) and the loop goes on unless max_eps is reached.
episode_result(succ, rew, n_eps) ==
    IF ~ succ
    THEN [brk |-> TRUE, clear |-> FALSE]
    ELSE IF rew >= reward_threshold
         THEN [brk |-> TRUE, clear |-> FALSE]
         ELSE [brk |-> ~ (n_eps < max_eps), clear |-> TRUE]

\* run_episode judging the episode by its total reward.
episode_return_total(r, total) == [success |-> total > 0, reward |-> total]

\* run_episode, line 103: return reward > 0, total_reward (reward is the
\* one of the last step).
episode_return(r, total) == [success |-> r > 0, reward |-> total]

\* run_episode, lines 96-103: get_action, get_state, env.step.  The
\* environment answers with any observation, reward and done flag, and ends
\* the episode by its time_limit-th step.  When done, run_episode returns
\* (reward > 0, total_reward) to try_model, whose loop body (lines 66-74)
\* and loop test (line 63) follow.
Step ==
    /\ pc = "run"
    /\ LET ga == get_action(obs, state, model, dirty_variables, dirty_buffer, cfg)
           gs == get_state(obs, state, model, ga.dv, ga.db, cfg)
       IN IF ~ ga.ok \/ ~ gs.ok
          THEN /\ outcome' = "Error"
               /\ pc' = "returned"
               /\ dirty_variables' = IF ga.ok THEN gs.dv ELSE ga.dv
               /\ dirty_buffer' = IF ga.ok THEN gs.db ELSE ga.db
               /\ UNCHANGED <<success, reward, obs, state, total_reward, steps,
                              trace, goodeps, qualifying, all_failed>>
          ELSE \E o2 \in chars_plus(cfg), r \in Rewards, done \in BOOLEAN :
                 /\ steps + 1 >= time_limit => done
                 /\ done => o2 = 0
                 /\ trace' = Append(trace,
                               [obs |-> obs, state |-> state, action |-> ga.ret,
                                next |-> gs.ret, d |-> ga.dform, w |-> ga.wform,
                                s |-> gs.form])
                 /\ outcome' = outcome
                 /\ IF done
                    THEN LET ret == episode_return(r, total_reward + r)
                             er == episode_result(ret.success, ret.reward, eps)
                         IN /\ success' = ret.success
                            /\ reward' = ret.reward
                            /\ goodeps' = IF ret.success THEN goodeps + 1 ELSE goodeps
                            /\ qualifying' = IF r > 0 /\ total_reward + r >= reward_threshold
                                             THEN qualifying + 1 ELSE 0
                            /\ dirty_variables' = IF er.clear THEN {} ELSE gs.dv
                            /\ dirty_buffer' = IF er.clear THEN {} ELSE gs.db
                            /\ all_failed' = (all_failed /\ ~ (r > 0))
                            /\ pc' = IF er.brk THEN "tried" ELSE "try"
                            /\ obs' = 0
                            /\ state' = 0
                            /\ total_reward' = 0
                            /\ steps' = 0
                    ELSE /\ obs' = o2
                         /\ state' = gs.ret
                         /\ total_reward' = total_reward + r
                         /\ steps' = steps + 1
                         /\ pc' = "run"
                         /\ dirty_variables' = gs.dv
                         /\ dirty_buffer' = gs.db
                         /\ UNCHANGED <<success, reward, goodeps, qualifying,
                                        all_failed>>
    /\ UNCHANGED <<policy, reward_countdown>>
    /\ UNCHANGED <<cfg, maxiters, time_limit, i, asserted, model, eps>>

\* try_model, lines 76-84, then solve, lines 47-55 and 37: what follows the
\* end of try_model's loop.  rew at or above the threshold: True, and solve
\* returns True.  Otherwise False: solve iterates again, or returns False
\* when the budget is used up.
after_try(rew, n, budget) ==
    IF rew >= reward_threshold
    THEN [pc |-> "returned", outcome |-> "Succeeded"]
    ELSE IF Below(n, budget)
         THEN [pc |-> "loop", outcome |-> "running"]
         ELSE [pc |-> "returned", outcome |-> "Aborted"]

\* What solve hands to its caller for each way it ends (lines 45, 50, 55).
solve_returns(out) == out = "Succeeded"

\* try_model returns (its locals are gone) and solve tests the result.
TryModelReturn ==
    /\ pc = "tried"
    /\ pc' = after_try(reward, i, maxiters).pc
    /\ outcome' = after_try(reward, i, maxiters).outcome
    /\ eps' = 0
    /\ goodeps' = 0
    /\ success' = FALSE
    /\ reward' = 0
    /\ trace' = <<>>
    /\ UNCHANGED <<policy, reward_countdown>>
    /\ UNCHANGED <<cfg, maxiters, time_limit, i, asserted, model, dirty_variables,
                   dirty_buffer, obs, state, total_reward, steps, qualifying,
                   all_failed>>

Next ==
    \/ Resolve
    \/ StartEpisode
    \/ Step
    \/ TryModelReturn

Spec == Init /\ [][Next]_vars

\* The search on the smallest shape against one-step episodes.
InitLoop ==
    /\ Init
    /\ NumVars(cfg) <= MaxLoopVars
    /\ time_limit = 1

\* _rule_vars, line 188: assert len(to_domain) >= 1, for each rule the
\* constructor builds.
rule_vars_built(c) == \A r \in RuleNames : Cardinality(to_domain(r, c)) >= 1

\* Construction on a shape with a degenerate domain: the constructor fails
\* on the assertion of _rule_vars, or the search starts as usual.
InitDegenerate ==
    /\ cfg \in DegenerateConfigs
    /\ time_limit \in 1 .. MaxSteps
    /\ maxiters \in Budgets(cfg, time_limit) \cap (1 .. ShortIters)
    /\ pc = IF rule_vars_built(cfg) THEN "loop" ELSE "returned"
    /\ outcome = IF rule_vars_built(cfg) THEN "running" ELSE "Error"
    /\ i = 0
    /\ asserted = add_base_constraints(cfg)
    /\ model = NoModel
    /\ dirty_variables = {}
    /\ dirty_buffer = {}
    /\ eps = 0
    /\ goodeps = 0
    /\ success = FALSE
    /\ reward = 0
    /\ obs = 0
    /\ state = 0
    /\ total_reward = 0
    /\ steps = 0
    /\ trace = <<>>
    /\ qualifying = 0
    /\ all_failed = TRUE
    /\ policy = NoPolicy
    /\ reward_countdown = 0

DegenerateSpec == InitDegenerate /\ [][Next]_vars

\* solve is a sequential program: it keeps taking its next step until it
\* returns.
FairSpec == InitLoop /\ [][Next]_vars /\ WF_vars(Next)

\* ------------------------------------------------------------ brute force

\* brute_force.py: the value of the output policy that means "don't write".
NO_OUTPUT == -1

\* The policies PolicyEnumerator yields for a shape: a direction, an output
\* and a next state per (input, state).
Policies(c) ==
    LET from == chars_plus(c) \X states(c)
    IN [dp : [from -> dirs],
        op : [from -> {NO_OUTPUT} \cup (0 .. c.n_chars - 1)],
        sp : [from -> states(c)]]

\* AlgorithmicPolicy.get_action.
policy_get_action(pol, o, s) ==
    LET direction == pol.dp[<<o, s>>]
        output == pol.op[<<o, s>>]
    IN IF output = NO_OUTPUT THEN <<direction, 0, 0>> ELSE <<direction, 1, output>>

\* AlgorithmicPolicy.run is called on one policy.
BruteInit ==
    /\ cfg \in Configs
    /\ NumVars(cfg) <= MaxLoopVars
    /\ time_limit \in 1 .. MaxSteps
    /\ maxiters = inf
    /\ policy \in Policies(cfg)
    /\ reward_countdown = trials
    /\ pc = "run_loop"
    /\ i = 0
    /\ asserted = {}
    /\ model = NoModel
    /\ dirty_variables = {}
    /\ dirty_buffer = {}
    /\ eps = 0
    /\ goodeps = 0
    /\ success = FALSE
    /\ reward = 0
    /\ obs = 0
    /\ state = 0
    /\ total_reward = 0
    /\ steps = 0
    /\ trace = <<>>
    /\ qualifying = 0
    /\ all_failed = TRUE
    /\ outcome = "running"

\* run, lines 104-105, and run_episode, lines 114-117: the countdown is
\* not 0, so one more episode starts.
BruteStartEpisode ==
    /\ pc = "run_loop"
    /\ reward_countdown # 0
    /\ obs' \in chars_plus(cfg)
    /\ state' = 0
    /\ total_reward' = 0
    /\ steps' = 0
    /\ trace' = <<>>
    /\ pc' = "run_episode"
    /\ UNCHANGED <<cfg, maxiters, time_limit, i, asserted, model, dirty_variables,
                   dirty_buffer, eps, goodeps, success, reward, qualifying,
                   all_failed, outcome, policy, reward_countdown>>

\* run, lines 108-110: the countdown goes down by one for an episode at or
\* above the threshold and stays for any other.
countdown(seen, n) == IF seen THEN n - 1 ELSE n

\* run_episode, lines 118-125, and run, lines 106-110: the policy's action
\* and next state, env.step; when done, a failed episode makes run return
\* False, a successful one counts down if its total reaches the threshold.
BruteStep ==
    /\ pc = "run_episode"
    /\ \E o2 \in chars_plus(cfg), r \in Rewards, done \in BOOLEAN :
          /\ steps + 1 >= time_limit => done
          /\ done => o2 = 0
          /\ trace' = Append(trace, [obs |-> obs, state |-> state,
                                     action |-> policy_get_action(policy, obs, state),
                                     next |-> policy.sp[<<obs, state>>]])
          /\ IF done
             THEN LET ret == episode_return(r, total_reward + r)
                      seen_reward_thresh == ret.reward >= reward_threshold
                  IN /\ success' = ret.success
                     /\ reward' = ret.reward
                     /\ obs' = 0
                     /\ state' = 0
                     /\ total_reward' = 0
                     /\ steps' = 0
                     /\ IF ~ ret.success
                        THEN /\ pc' = "returned"
                             /\ outcome' = "False"
                             /\ qualifying' = 0
                             /\ reward_countdown' = reward_countdown
                        ELSE /\ pc' = "run_loop"
                             /\ outcome' = outcome
                             /\ qualifying' = IF seen_reward_thresh
                                              THEN qualifying + 1 ELSE 0
                             /\ reward_countdown' =
                                   countdown(seen_reward_thresh, reward_countdown)
             ELSE /\ obs' = o2
                  /\ state' = policy.sp[<<obs, state>>]
                  /\ total_reward' = total_reward + r
                  /\ steps' = steps + 1
                  /\ pc' = "run_episode"
                  /\ UNCHANGED <<success, reward, qualifying, outcome,
                                 reward_countdown>>
    /\ UNCHANGED <<cfg, maxiters, time_limit, i, asserted, model, dirty_variables,
                   dirty_buffer, eps, goodeps, all_failed, policy>>

\* run, lines 104 and 111: the countdown reached 0, run returns True.
BruteReturn ==
    /\ pc = "run_loop"
    /\ reward_countdown = 0
    /\ pc' = "returned"
    /\ outcome' = "True"
    /\ trace' = <<>>
    /\ UNCHANGED <<cfg, maxiters, time_limit, i, asserted, model, dirty_variables,
                   dirty_buffer, eps, goodeps, success, reward, obs, state,
                   total_reward, steps, qualifying, all_failed, policy,
                   reward_countdown>>

BruteNext ==
    \/ BruteStartEpisode
    \/ BruteStep
    \/ BruteReturn

BruteSpec == BruteInit /\ [][BruteNext]_vars

\* ----------------------------------------------------------------- claims

Nogoods == {f \in asserted : f.op = "NotAnd"}

\* The literals a failed episode is blamed for: every step's write literal,
\* and the direction and next-state literals of every step but the last.
FailedLiterals(tr) ==
    {tr[j].w : j \in 1 .. Len(tr)}
      \cup {tr[j].d : j \in 1 .. Len(tr) - 1}
      \cup ({tr[j].s : j \in 1 .. Len(tr) - 1} \ {NoLit})

\* The direction and next-state literals of the last step of an episode.
LastBuffered(tr) ==
    IF tr = <<>> THEN {} ELSE {tr[Len(tr)].d, tr[Len(tr)].s} \ {NoLit}

\* What a failed episode leaves behind, and what resolve() makes of it.
NogoodOfFailure ==
    /\ (pc' = "tried" /\ ~ success') =>
          /\ dirty_variables' = FailedLiterals(trace')
          /\ dirty_buffer' = LastBuffered(trace')
    /\ pc = "tried" => dirty_variables' = dirty_variables
    /\ (pc = "loop" /\ dirty_variables # {}) =>
          asserted' = asserted \cup {NotAnd(dirty_variables)}
    /\ (pc = "loop" /\ dirty_variables = {}) => asserted' = asserted

\* C1 (as amended): after an episode that failed on step k, the nogood the
\* next resolve() asserts is the negation of exactly the write literals of
\* steps 1..k and the direction and next-state literals of steps 1..k-1 of
\* that episode; step k's direction and next-state literals are in
\* dirty_buffer and enter the nogood only when an earlier step of the
\* episode decoded the same literal.
C1_NogoodIsFailedEpisode == [][NogoodOfFailure]_vars

\* C1 as stated: ... and the direction and next-state literals of step k are
\* never part of the nogood.
C1_LastStepNeverBlamed ==
    (pc = "tried" /\ ~ success) =>
        /\ dirty_variables = FailedLiterals(trace)
        /\ LastBuffered(trace) \cap dirty_variables = {}

\* C1: a nogood of a two-step failure has been asserted: two write literals
\* and the first step's direction literal.
C1_Witness ==
    \E f \in Nogoods :
        /\ Cardinality({l \in f.lits : l[1][1] = "write_rule"}) = 2
        /\ Cardinality({l \in f.lits : l[1][1] = "dir_rule"}) = 1

\* C2: solve returns True only after `trials` consecutive qualifying
\* episodes of the candidate.
C2_SucceededAfterTrials == outcome = "Succeeded" => qualifying >= trials

\* C3: a failed episode makes try_model report failure: the loop goes on
\* (or runs out of budget) and never declares Succeeded.
C3_FailedEpisodeNeverSucceeds ==
    [][(pc = "tried" /\ ~ success) => outcome' # "Succeeded"]_vars

\* C4: without an iteration budget solve always returns, Succeeded or
\* Exhausted, also when an evaluation ends at the episode cap.
C4_Terminates == (maxiters = inf) => <>(outcome \in {"Succeeded", "Exhausted"})

\* C5: solve ends Exhausted only when every controller is ruled out, and
\* when no controller can pass (here: the environment has failed every
\* episode it was asked for) it ends Exhausted, or Aborted under a budget.
C5_ExhaustedIffNoController ==
    /\ outcome = "Exhausted" => Models(asserted, cfg) = {}
    /\ (pc = "returned" /\ all_failed) => outcome \in {"Exhausted", "Aborted"}

\* Every literal the steps of an episode decoded.
TraceLiterals(tr) ==
    UNION {{tr[j].d, tr[j].w, tr[j].s} : j \in DOMAIN tr} \ {NoLit}

\* C6: both sets are empty whenever an episode is about to start (the
\* first one, or the one after a discarded success), so what they hold was
\* decoded during the episode being run or just ended.
C6_ProvenanceIsCurrentEpisode ==
    /\ pc = "try" => (dirty_variables = {} /\ dirty_buffer = {})
    /\ pc \in {"run", "tried"} =>
          (dirty_variables \cup dirty_buffer) \subseteq TraceLiterals(trace)

\* C6: the second episode of a candidate is under way, after a successful
\* one was discarded.
C6_Witness == pc = "run" /\ eps = 2 /\ goodeps = 1 /\ dirty_variables # {}

\* C7: the buffer holds at most the direction literal and the next-state
\* literal of one (state, input) pair, that of the most recent step.
C7_BufferHoldsOnePair ==
    /\ Cardinality(dirty_buffer) <= 2
    /\ \A l \in dirty_buffer : l[1][1] \in {"dir_rule", "state_rule"}
    /\ \A l1, l2 \in dirty_buffer :
          /\ l1[1][2] = l2[1][2]
          /\ l1[1][3] = l2[1][3]
          /\ l1[1][1] = l2[1][1] => l1 = l2
    /\ cfg.n_states = 1 => Cardinality(dirty_buffer) <= 1
    /\ (pc \in {"run", "tried"} /\ dirty_buffer # {}) =>
          dirty_buffer = LastBuffered(trace)

\* C7: two steps were taken with two states; the buffer holds the second
\* step's pair.
C7_Witness ==
    /\ cfg.n_states = 2
    /\ Len(trace) = 2
    /\ Cardinality(dirty_buffer) = 2
    /\ <<trace[1].state, trace[1].obs>> # <<trace[2].state, trace[2].obs>>

\* What every step does to the solver session.
SessionGrows ==
    /\ asserted \subseteq asserted'
    /\ add_base_constraints(cfg) \subseteq asserted'
    /\ model' # NoModel => \A f \in asserted' : Eval(f, model')

\* C8: no step retracts an assertion, the exactly-one constraints and the
\* nogoods stay, and every assignment solve() returns satisfies all of them.
C8_AssertionsOnlyGrow == [][SessionGrows]_vars

\* C8: a candidate obtained after two nogoods were learned.
C8_Witness == Cardinality(Nogoods) >= 2 /\ model # NoModel /\ pc = "try"

\* C9: groups of more than two values have their exactly-one constraint
\* from the start and two-valued ones have none; every assignment returned
\* has exactly one true member per group, and the lookup finds it.
C9_OneHotDecoding ==
    /\ outcome # "Error"
    /\ \A r \in RuleNames, tup \in states(cfg) \X chars_plus(cfg) :
          LET thing == rule_vars(r, cfg)[tup]
              group == SymbolsOf(thing)
          IN IF Cardinality(to_domain(r, cfg)) > 2
             THEN /\ ExactlyOne(group) \in asserted
                  /\ model # NoModel =>
                        /\ Cardinality({v \in group : model[v]}) = 1
                        /\ decode(thing, model).ok
                        /\ model[thing.vs[decode(thing, model).ret + 1]]
             ELSE \A f \in asserted :
                    f.op = "ExactlyOne" => f.vs \cap group = {}

\* C9: a three-valued write rule decoded its last value ("don't write").
C9_Witness ==
    /\ cfg.n_chars = 2
    /\ trace # <<>>
    /\ trace[1].action[2] = 0
    /\ trace[1].w[1][4] = 2

\* What the calls recorded for the running episode returned, against the
\* assignment alone.
ReadsOnlyModel ==
    /\ pc # "loop" => model' = model
    /\ \A j \in DOMAIN trace' :
          LET e == trace'[j]
          IN /\ e.action = get_action(e.obs, e.state, model', {}, {}, cfg).ret
             /\ e.next = get_state(e.obs, e.state, model', {}, {}, cfg).ret

\* C10: between two resolve() calls the assignment does not change and what
\* get_action and get_state return depends on it and on (state, input)
\* only, not on the dirty sets or on earlier calls.
C10_PureReads == [][ReadsOnlyModel]_vars

\* C10: the same (state, input) was looked up twice in the second episode
\* of a candidate.
C10_Witness ==
    /\ eps = 2
    /\ Len(trace) = 2
    /\ trace[1].obs = trace[2].obs
    /\ trace[1].state = trace[2].state
    /\ trace[1].action = trace[2].action

\* C11: a search that ends because the budget ran out hands its caller a
\* result different from the one of a search that ended on unsat.
C11_AbortedToldApart ==
    outcome = "Aborted" => solve_returns(outcome) # solve_returns("Exhausted")

\* What an unsatisfiable answer leads to: resolve() ends with no
\* assignment exactly when none satisfies the assertions.
UnsatEndsSearch ==
    /\ (pc = "loop" /\ model' = NoModel) =>
          /\ Models(asserted', cfg) = {}
          /\ pc' = "returned"
          /\ outcome' = "Exhausted"
          /\ ~ solve_returns(outcome')
    /\ (pc = "loop" /\ model' # NoModel) =>
          (pc' = "try" /\ \A f \in asserted' : Eval(f, model'))
    /\ outcome = "Exhausted" => (pc' = "returned" /\ eps' = eps /\ trace' = trace)

\* C12: when the solver has no assignment, solve returns (False) in the
\* Exhausted outcome: no failure escapes and no episode is run afterwards.
C12_UnsatIsAResult == [][UnsatEndsSearch]_vars

\* C12: the solver answered unsat after nogoods were learned.
C12_Witness == outcome = "Exhausted" /\ pc = "returned" /\ Cardinality(Nogoods) >= 2

\* C13: with a rule domain of fewer than two values the construction, the
\* solving and every lookup end without an assertion failure or other error.
C13_DegenerateOnlyWarns ==
    (\E r \in RuleNames : Cardinality(to_domain(r, cfg)) < 2) => outcome # "Error"

\* What the get_state call of the step about to be taken changes, after the
\* get_action call that precedes it.
GetStateFrame ==
    pc = "run" =>
      LET ga == get_action(obs, state, model, dirty_variables, dirty_buffer, cfg)
          gs == get_state(obs, state, model, ga.dv, ga.db, cfg)
      IN /\ gs.dv = ga.dv
         /\ cfg.n_states = 1 => (gs.ret = 0 /\ gs.db = ga.db)
         /\ cfg.n_states > 1 =>
               /\ Cardinality(gs.db \ ga.db) = 1
               /\ \A l \in gs.db \ ga.db :
                     /\ gs.db = ga.db \cup {l}
                     /\ l[1] \in SymbolsOf(rule_vars("state_rule", cfg)[<<state, obs>>])
                     /\ LitHolds(model, l)
                     /\ l = gs.form
         /\ pc' = "run" => (dirty_variables' = gs.dv /\ dirty_buffer' = gs.db
                             /\ state' = gs.ret)

\* C14: get_state with one state returns 0 and touches neither set; with
\* more states it adds the one decoded state-rule literal of (state, input)
\* to the buffer and leaves the Provenance Set alone.
C14_GetStateFrame == [][GetStateFrame]_vars

\* C14: a step with two states was taken and the episode goes on: the
\* buffer holds the direction and the state literal.
C14_Witness ==
    /\ cfg.n_states = 2
    /\ pc = "run"
    /\ Len(trace) = 1
    /\ trace[1].s \in dirty_buffer
    /\ trace[1].s \notin dirty_variables

\* The shape of run_episode: one reset to internal state 0, then steps that
\* each ask get_action and get_state about the same (observation, state),
\* advance the environment once and add its reward to the total; the step
\* that ends the episode decides success by its own reward.
EpisodeShape ==
    /\ pc = "try" =>
          /\ pc' = "run"
          /\ state' = 0
          /\ total_reward' = 0
          /\ steps' = 0
          /\ trace' = <<>>
    /\ (pc = "run" /\ outcome' # "Error") =>
          /\ Len(trace') = Len(trace) + 1
          /\ SubSeq(trace', 1, Len(trace)) = trace
          /\ LET e == trace'[Len(trace')]
             IN /\ e.obs = obs
                /\ e.state = state
                /\ e.action = get_action(obs, state, model, {}, {}, cfg).ret
                /\ e.next = get_state(obs, state, model, {}, {}, cfg).ret
                /\ pc' = "run" =>
                      /\ state' = e.next
                      /\ steps' = steps + 1
                      /\ (total_reward' - total_reward) \in Rewards
                /\ pc' # "run" =>
                      /\ (reward' - total_reward) \in Rewards
                      /\ success' = (reward' - total_reward > 0)

\* C15: run_episode starts from state 0, alternates get_action, get_state
\* and one environment step on the same (observation, state), and returns
\* (reward of the last step > 0, sum of the step rewards).
C15_EpisodeShape == [][EpisodeShape]_vars

\* C15: a two-step episode ended with a positive total and a last reward
\* that is not positive.
C15_Witness == pc = "tried" /\ Len(trace) = 2 /\ reward > 0 /\ ~ success

\* The value a literal stands for: the index of a one-hot member, or 1 / 0
\* for a two-valued rule's symbol and its negation.
ValueOf(l) == IF l[1][4] = -1 THEN (IF l[2] THEN 1 ELSE 0) ELSE l[1][4]

\* C16: in every action returned, writeFlag is 0 exactly when the decoded
\* write value is n_chars; otherwise it is 1 and the symbol is that value;
\* the symbol is always in 0..n_chars-1 and the direction is the decoded
\* direction value of the same (state, input).
C16_ActionFromWrite ==
    \A j \in DOMAIN trace :
      LET e == trace[j]
          w == ValueOf(e.w)
      IN /\ e.w[1] \in SymbolsOf(rule_vars("write_rule", cfg)[<<e.state, e.obs>>])
         /\ e.d[1] \in SymbolsOf(rule_vars("dir_rule", cfg)[<<e.state, e.obs>>])
         /\ LitHolds(model, e.w)
         /\ LitHolds(model, e.d)
         /\ w \in 0 .. cfg.n_chars
         /\ (e.action[2] = 0) <=> (w = cfg.n_chars)
         /\ w # cfg.n_chars => (e.action[2] = 1 /\ e.action[3] = w)
         /\ e.action[3] \in 0 .. cfg.n_chars - 1
         /\ e.action[1] = ValueOf(e.d)

\* C16: one episode decoded "don't write" in its first step and a symbol
\* other than 0 in its second.
C16_Witness ==
    /\ Len(trace) = 2
    /\ trace[1].action[2] = 0
    /\ trace[2].action[2] = 1
    /\ trace[2].action[3] = 1

\* The variables of the rules an episode read: those of the (state, input)
\* pairs it visited.  No lookup of the episode reads any other.
VisitedVars(tr, c) ==
    UNION {SymbolsOf(rule_vars(r, c)[<<tr[j].state, tr[j].obs>>]) :
             r \in RuleNames, j \in DOMAIN tr}

\* The controllers a nogood over lits excludes, as far as the episode can
\* tell them apart: the assignments that satisfy the exactly-one
\* constraints, make every literal of lits true and are like the failed
\* candidate m wherever the episode did not look.
Agreeing(lits, m, tr, c) ==
    LET V == VisitedVars(tr, c)
        A == {[v \in DOMAIN m |-> IF v \in V THEN f[v] ELSE m[v]] :
                f \in [V -> BOOLEAN]}
    IN {a \in A : /\ \A l \in lits : LitHolds(a, l)
                  /\ \A f \in asserted : f.op = "ExactlyOne" => Eval(f, a)}

\* What controller a decides at step j of the recorded episode.
ActionOf(a, e) == get_action(e.obs, e.state, a, {}, {}, cfg).ret
NextOf(a, e) == get_state(e.obs, e.state, a, {}, {}, cfg).ret

\* C17 as stated: a controller that makes every literal of a failed
\* episode's Provenance Set true takes the same actions through the failing
\* step, on the same observations and internal states.
C17_SameActionsThroughFailure ==
    (pc = "tried" /\ ~ success) =>
       \A a \in Agreeing(dirty_variables, model, trace, cfg) :
          /\ \A j \in 1 .. Len(trace) : ActionOf(a, trace[j]) = trace[j].action
          /\ \A j \in 1 .. Len(trace) - 1 : NextOf(a, trace[j]) = trace[j].next

\* C17: a controller that makes every literal of a failed episode's
\* Provenance Set true takes the same write decisions through the failing
\* step k and the same directions and next states through step k-1, on the
\* same observations and internal states; the failed candidate is one of
\* them.
C17_NogoodIsSound ==
    (pc = "tried" /\ ~ success) =>
       /\ model \in Agreeing(dirty_variables, model, trace, cfg)
       /\ \A a \in Agreeing(dirty_variables, model, trace, cfg) :
             /\ \A j \in 1 .. Len(trace) :
                   /\ ActionOf(a, trace[j])[2] = trace[j].action[2]
                   /\ ActionOf(a, trace[j])[3] = trace[j].action[3]
             /\ \A j \in 1 .. Len(trace) - 1 :
                   /\ ActionOf(a, trace[j]) = trace[j].action
                   /\ NextOf(a, trace[j]) = trace[j].next

\* C17: a two-step episode of a two-state controller failed, having moved
\* to the other state.
C17_Witness ==
    /\ pc = "tried"
    /\ ~ success
    /\ cfg.n_states = 2
    /\ Len(trace) = 2
    /\ trace[2].state = 1
    /\ Cardinality(Agreeing(dirty_variables, model, trace, cfg)) > 1

\* C18: every literal of either set is true under the current candidate;
\* a failed episode leaves the Provenance Set non-empty, so the nogood the
\* next resolve() asserts is false under the failed candidate; and no
\* candidate ever makes all literals of a learned nogood true.
C18_NogoodForbidsFailedCandidate ==
    /\ model # NoModel =>
          /\ \A l \in dirty_variables \cup dirty_buffer : LitHolds(model, l)
          /\ \A f \in Nogoods : Eval(f, model)
    /\ (pc = "tried" /\ ~ success) => dirty_variables # {}
    /\ (pc = "loop" /\ dirty_variables # {}) =>
          /\ model # NoModel
          /\ ~ Eval(NotAnd(dirty_variables), model)
          /\ NotAnd(dirty_variables) \notin asserted

\* C18: a failed candidate is replaced by the first one learned from it.
C18_Witness ==
    /\ pc = "try"
    /\ Cardinality(Nogoods) = 1
    /\ model # NoModel
    /\ i = 2

\* What follows an evaluation that ended with a successful episode below
\* the threshold: it can only be the max_eps-th.
CapLeavesNothing ==
    /\ (pc = "tried" /\ success /\ reward < reward_threshold) =>
          /\ eps = max_eps
          /\ goodeps = max_eps
          /\ dirty_variables = {}
          /\ dirty_buffer = {}
          /\ outcome' # "Succeeded"
          /\ dirty_variables' = {}
          /\ pc' = "loop" \/ outcome' = "Aborted"
    /\ (pc = "loop" /\ dirty_variables = {}) =>
          /\ asserted' = asserted
          /\ model' # NoModel => \A f \in asserted : Eval(f, model')

\* C19: at the episode cap with every episode succeeded and none
\* qualifying, try_model reports failure with both sets empty, and the
\* resolve() that follows asserts nothing and solves the same constraints.
C19_CapLeavesNothing == [][CapLeavesNothing]_vars

\* C19: a second candidate was obtained although nothing was learned from
\* the first.
C19_Witness == pc = "try" /\ i = 2 /\ Nogoods = {} /\ model # NoModel

\* C20: AlgorithmicPolicy.run returns True only after trials qualifying
\* episodes in a row, and returns False as soon as an episode fails.
C20_TrueAfterConsecutiveTrials ==
    /\ outcome = "True" => qualifying >= trials
    /\ outcome = "False" => ~ success
    /\ (pc \in {"run_loop", "run_episode"} /\ reward # 0) => success

====
